---- MODULE Spec2Model ----
(***************************************************************************)
(* tpidump.c: the MPT file reader (mpt_reader_open, mpt_reader_fill,       *)
(* mpt_reader_get_digit, mpt_reader_getc, mpt_reader_close) and its        *)
(* driver dump_digits, as a state machine.                                 *)
(*                                                                         *)
(* A 64-bit limb is four 16-bit words, least significant first, so that    *)
(* the divisions and shifts of the digit parser are exact.  Header fields  *)
(* and positions are integers far below 2^63, where the conversions of     *)
(* line 135 between uint64_t and int64_t change no value.  malloc of the   *)
(* limb buffer (line 132, unchecked in the source) is taken to succeed.    *)
(***************************************************************************)
EXTENDS Integers, Sequences, FiniteSets, TLC

VARIABLES file, cap, base, pos, n, pc, s, heap, err, i, out, digits, iolog

vars == <<file, cap, base, pos, n, pc, s, heap, err, i, out, digits, iolog>>

(***************************************************************************)
(* Bounds of the model.                                                    *)
(***************************************************************************)
MaxLen == 3
MaxCap == 2
MaxShift == 3

(***************************************************************************)
(* Program constants.                                                      *)
(***************************************************************************)
BASE10_EXP == 19
MPT_TYPE_MPZ == 1
MPT_TYPE_MPF == 2
MPT_DISK_HEADER_SIZE == 4096
MPT_MAX_BUF_LEN == 1048576
HeaderStructSize == 56
LimbBytes == 8
LimbBits == 64

mpt_magic == <<77, 80, 84, 1, 70, 73, 76, 69>>

NULL == [null |-> TRUE]

(***************************************************************************)
(* C integer arithmetic: / and % truncate toward zero.                     *)
(***************************************************************************)
CDiv(a, b) == IF a >= 0 THEN a \div b ELSE -((-a) \div b)

CMod(a, b) == a - b * CDiv(a, b)

(***************************************************************************)
(* uint64_t values as <<w0, w1, w2, w3>>, value = sum of w_k * 65536^k.    *)
(***************************************************************************)
Word(a, k) == IF k \in 1..4 THEN a[k] ELSE 0

WordBase == 2^16

\* a / 10 and a % 10 of lines 175-176, by long division from the top word.
DivRem10(a) ==
    LET c4 == a[4]
        c3 == (c4 % 10) * WordBase + a[3]
        c2 == (c3 % 10) * WordBase + a[2]
        c1 == (c2 % 10) * WordBase + a[1]
    IN  [q |-> <<c1 \div 10, c2 \div 10, c3 \div 10, c4 \div 10>>, r |-> c1 % 10]

\* a >> sh for 0 <= sh <= 63.
Shr(a, sh) ==
    LET ws == sh \div 16
        bs == sh % 16
        lo(k) == Word(a, k + ws) \div (2^bs)
        hi(k) == (Word(a, k + ws + 1) % (2^bs)) * (2^(16 - bs))
    IN  [k \in 1..4 |-> lo(k) + hi(k)]

\* a & mask for a mask of the form 2^e - 1 with e <= 16 (base2_mask).
AndMask(a, mask) == a[1] % (mask + 1)

(***************************************************************************)
(* The limbs the files are built from: the words the file holds, and the   *)
(* same value written out in decimal (20 digits) and in hexadecimal (16    *)
(* digits), most significant digit first.                                  *)
(***************************************************************************)
LimbTable ==
    << [w   |-> <<18902, 41522, 11743, 11161>>,
        dec |-> <<0,3,1,4,1,5,9,2,6,5,3,5,8,9,7,9,3,2,3,8>>,
        hex |-> <<2,11,9,9,2,13,13,15,10,2,3,2,4,9,13,6>>],
       [w   |-> <<65535, 65535, 65535, 65535>>,
        dec |-> <<1,8,4,4,6,7,4,4,0,7,3,7,0,9,5,5,1,6,1,5>>,
        hex |-> <<15,15,15,15,15,15,15,15,15,15,15,15,15,15,15,15>>],
       [w   |-> <<52719, 35243, 17767, 291>>,
        dec |-> <<0,0,0,8,1,9,8,5,5,2,9,2,1,6,4,8,6,8,9,5>>,
        hex |-> <<0,1,2,3,4,5,6,7,8,9,10,11,12,13,14,15>>],
       [w   |-> <<57893, 55472, 52039, 35536>>,
        dec |-> <<1,0,0,0,2,7,1,8,2,8,1,8,2,8,4,5,9,0,4,5>>,
        hex |-> <<8,10,13,0,12,11,4,7,13,8,11,0,14,2,2,5>>],
       [w   |-> <<1, 0, 0, 32768>>,
        dec |-> <<0,9,2,2,3,3,7,2,0,3,6,8,5,4,7,7,5,8,0,9>>,
        hex |-> <<8,0,0,0,0,0,0,0,0,0,0,0,0,0,0,1>>] >>

\* The body of a file of k limbs: limb index j (0-based) holds table entry
\* (j mod 5) + 1, so neighbouring limbs differ.
Body(k) == [j \in 1..k |-> ((j - 1) % Len(LimbTable)) + 1]

(***************************************************************************)
(* mpt_disk_header_t and the files on disk.  size is the file's length in  *)
(* bytes; body[j] names the limb at byte offset 4096 + 8 * (j - 1).        *)
(***************************************************************************)
mpt_disk_header_t(fl) ==
    [magic |-> fl.magic, len |-> fl.len, allocated_len |-> fl.allocated_len,
     type |-> fl.type, negative |-> fl.negative, base |-> fl.base,
     expn |-> fl.expn]

GoodFile(len, expn) ==
    [exists |-> TRUE, size |-> MPT_DISK_HEADER_SIZE + LimbBytes * len,
     magic |-> mpt_magic, len |-> len, allocated_len |-> len,
     type |-> MPT_TYPE_MPF, negative |-> 0, base |-> 0, expn |-> expn,
     body |-> Body(len)]

BadMagic == <<77, 80, 84, 2, 70, 73, 76, 69>>

GoodFiles ==
    {GoodFile(len, 0) : len \in 0..MaxLen}
        \cup {GoodFile(MaxLen, 1), GoodFile(1, 2)}

\* Files that differ from a good one in a single respect.
Variants(g) ==
    { [g EXCEPT !.exists = FALSE],
      [g EXCEPT !.size = 0, !.body = <<>>],
      [g EXCEPT !.size = HeaderStructSize - 1, !.body = <<>>],
      [g EXCEPT !.size = HeaderStructSize, !.body = <<>>],
      [g EXCEPT !.size = g.size - LimbBytes, !.body = Body(g.len - 1)],
      [g EXCEPT !.magic = BadMagic],
      [g EXCEPT !.type = MPT_TYPE_MPZ],
      [g EXCEPT !.expn = -1],
      [g EXCEPT !.allocated_len = g.len + 5],
      [g EXCEPT !.negative = 1],
      [g EXCEPT !.base = 10] }

Files == GoodFiles \cup Variants(GoodFile(2, 0))

Caps == (1..MaxCap) \cup {MPT_MAX_BUF_LEN}

Bases == {0, 2, 3, 4, 8, 10, 16, 32}

\* The digits one limb holds in base b (19 decimal digits; 64 / log2(b)
\* digits of a power of two).
DigitsIn(b) == IF b = 10 THEN BASE10_EXP ELSE IF b = 2 THEN LimbBits ELSE LimbBits \div 4

\* The 0-based start positions tried in base b: around the limb boundaries,
\* at and before the end of the longest file, and before the first digit.
StartPositions(b) ==
    IF b \in {10, 2, 16}
    THEN LET D == DigitsIn(b)
         IN  {-D, -1, 0, 1, D - 1, D, D + 1, 2 * D + 2,
              D * MaxLen - 1, D * MaxLen}
    ELSE {0, 1}

\* argv[3]: the 1-based position the user asks for.
Positions(b) == {p + 1 : p \in StartPositions(b)}

\* argv[4]: the number of digits asked for.
NBig == LimbBits * MaxLen + 2

Counts == {0, 10, 11, NBig}

(***************************************************************************)
(* The resources a reader holds: the FILE (s->f), the limb buffer (s->buf) *)
(* and the MPTReader record itself, with the number of times each has been *)
(* released.                                                               *)
(***************************************************************************)
Heap0 ==
    [f |-> "none", buf |-> "null", s |-> "none",
     nfclose |-> 0, nfreebuf |-> 0, nfrees |-> 0, fault |-> FALSE]

min_int64(a, b) == IF a < b THEN a ELSE b

\* mpt_reader_close on the resources h.  Called on a record that is already
\* freed it reads s->f and s->buf out of freed memory: ub names what that
\* does, "crash" (the process dies in the call) or "stale" (the old pointer
\* values are read back and released again).
mpt_reader_close(h, ub) ==
    IF h.s = "live"
    THEN [h EXCEPT !.f = IF h.f = "open" THEN "closed" ELSE h.f,
                   !.nfclose = IF h.f = "open" THEN @ + 1 ELSE @,
                   !.buf = IF h.buf = "live" THEN "freed" ELSE h.buf,
                   !.nfreebuf = IF h.buf = "live" THEN @ + 1 ELSE @,
                   !.s = "freed",
                   !.nfrees = @ + 1]
    ELSE IF ub = "crash"
    THEN [h EXCEPT !.fault = TRUE]
    ELSE [h EXCEPT !.fault = TRUE,
                   !.nfclose = IF h.f # "none" THEN @ + 1 ELSE @,
                   !.nfreebuf = IF h.buf # "null" THEN @ + 1 ELSE @,
                   !.nfrees = @ + 1]

\* The reads and seeks issued on the file, in order.
IoHeader == [op |-> "read", off |-> 0, nbytes |-> HeaderStructSize]

IoSeek(off) == [op |-> "seek", off |-> off, nbytes |-> 0]

IoRead(off, nbytes) == [op |-> "read", off |-> off, nbytes |-> nbytes]

\* The fail: label of mpt_reader_open (lines 140-142).
OpenFail(h, why, io) ==
    [s |-> NULL, err |-> why, heap |-> mpt_reader_close(h, "crash"), io |-> io]

\* The loop of lines 124-126.
RECURSIVE Base2Exp(_, _)
Base2Exp(b, e) == IF 2^e = b THEN e ELSE Base2Exp(b, e + 1)

\* base_supported with base 4 let through as well.
base_supported_with_4(b) == b = 10 \/ b = 2 \/ b = 4 \/ b = 16

\* Line 102: the bases mpt_reader_open goes on with.
base_supported(b) == b = 10 \/ b = 2 \/ b = 16

\* header_valid without the test of the exponent's sign (lines 119-120).
header_valid_any_expn(fl) ==
    /\ fl.size >= HeaderStructSize
    /\ fl.magic = mpt_magic
    /\ fl.type = MPT_TYPE_MPF

\* Lines 113-120: enough bytes for the header, the magic, the type and
\* the sign of the exponent.
header_valid(fl) ==
    /\ fl.size >= HeaderStructSize
    /\ fl.magic = mpt_magic
    /\ fl.type = MPT_TYPE_MPF
    /\ fl.expn >= 0

\* limb_offset one limb too far.
limb_offset_plus_1(len, expn, sp, digits_per_limb) ==
    len - expn - CDiv(sp, digits_per_limb) + 1

\* Line 135: s->pos, the number of limbs from the start of the body up to
\* and including the limb of the first digit.
limb_offset(len, expn, sp, digits_per_limb) ==
    len - expn - CDiv(sp, digits_per_limb)

\* start_digit that forgets the offset into the first limb.
start_digit_zero(sp, digits_per_limb) == 0

\* Line 138: s->start_digit.
start_digit(sp, digits_per_limb) == CMod(sp, digits_per_limb)

\* open_at that already reads the first limb of the body.
open_at_prefetch(fl, b, sp, base2_exp, digits_per_limb, h) ==
    IF limb_offset(fl.len, fl.expn, sp, digits_per_limb) <= 0
    THEN OpenFail(h, "PositionOutOfRange", <<IoHeader>>)
    ELSE [s |-> [null |-> FALSE, h |-> mpt_disk_header_t(fl), base |-> b,
                 buf |-> <<>>, buf_pos |-> 0, buf_len |-> 0,
                 pos |-> limb_offset(fl.len, fl.expn, sp, digits_per_limb),
                 start_digit |-> start_digit(sp, digits_per_limb),
                 base2_exp |-> base2_exp,
                 base2_mask |-> IF b = 10 THEN 0 ELSE 2^base2_exp - 1,
                 cur_digit |-> 0, cur_limb2 |-> <<0, 0, 0, 0>>,
                 cur_limb10 |-> [k \in 1..BASE10_EXP |-> 0]],
          err |-> "none", heap |-> h,
          io |-> <<IoHeader, IoSeek(MPT_DISK_HEADER_SIZE),
                   IoRead(MPT_DISK_HEADER_SIZE, LimbBytes)>>]

\* Lines 121-139, with the header read and accepted.
open_at(fl, b, sp, base2_exp, digits_per_limb, h) ==
    IF limb_offset(fl.len, fl.expn, sp, digits_per_limb) <= 0
    THEN OpenFail(h, "PositionOutOfRange", <<IoHeader>>)
    ELSE [s |-> [null |-> FALSE, h |-> mpt_disk_header_t(fl), base |-> b,
                 buf |-> <<>>, buf_pos |-> 0, buf_len |-> 0,
                 pos |-> limb_offset(fl.len, fl.expn, sp, digits_per_limb),
                 start_digit |-> start_digit(sp, digits_per_limb),
                 base2_exp |-> base2_exp,
                 base2_mask |-> IF b = 10 THEN 0 ELSE 2^base2_exp - 1,
                 cur_digit |-> 0, cur_limb2 |-> <<0, 0, 0, 0>>,
                 cur_limb10 |-> [k \in 1..BASE10_EXP |-> 0]],
          err |-> "none", heap |-> h, io |-> <<IoHeader>>]

\* open_base that divides by the digits of a limb (64 / base2_exp) instead
\* of its bits.
open_base_per_digit(fl, b, start_pos, base2_exp, h) ==
    IF b = 10
    THEN open_at(fl, b, start_pos, 0, BASE10_EXP, h)
    ELSE open_at(fl, b, start_pos * base2_exp, base2_exp,
                 LimbBits \div base2_exp, h)

\* Lines 121-130: base 10 counts in digits, 19 to a limb; a power of two
\* counts in bits, 64 to a limb, and start_pos is scaled to bits.

open_base(fl, b, start_pos, base2_exp, h) ==
    IF b = 10
    THEN open_at(fl, b, start_pos, 0, BASE10_EXP, h)
    ELSE open_at(fl, b, start_pos * base2_exp, base2_exp, LimbBits, h)

\* mpt_reader_open(filename, base, start_pos); malloc_ok says whether the
\* malloc of line 105 succeeds.  The error names are the spec's names for
\* the places where the function returns NULL.
mpt_reader_open(fl, b, start_pos, malloc_ok) ==
    IF ~base_supported(b)
    THEN [s |-> NULL, err |-> "UnsupportedBase", heap |-> Heap0, io |-> <<>>]
    ELSE IF ~malloc_ok
    THEN [s |-> NULL, err |-> "NoMemory", heap |-> Heap0, io |-> <<>>]
    ELSE IF ~fl.exists
    THEN OpenFail([Heap0 EXCEPT !.s = "live"], "Io", <<>>)
    ELSE IF ~header_valid(fl)
    THEN OpenFail([Heap0 EXCEPT !.s = "live", !.f = "open"], "Format",
                  <<IoHeader>>)
    ELSE open_base(fl, b, start_pos, IF b = 10 THEN 0 ELSE Base2Exp(b, 1),
                   [Heap0 EXCEPT !.s = "live", !.f = "open", !.buf = "live"])

\* mpt_reader_fill(s) on file fl with a buffer of capacity limbs
\* (MPT_MAX_BUF_LEN in the source).  ret is the return value; aborted says
\* that abort() of line 155 was reached.  buf[k] is s->buf[k - 1]; a load
\* of len limbs overwrites the first len and leaves the rest.
\* fill_load that forgets to move s->pos down (line 151).
fill_load_same_pos(r, fl, len, off) ==
    IF off + len * LimbBytes > fl.size
    THEN [s |-> r, ret |-> 0, aborted |-> TRUE,
          io |-> <<IoSeek(off), IoRead(off, len * LimbBytes)>>]
    ELSE [s |-> [r EXCEPT !.buf = [k \in 1..len |->
                                      LimbTable[fl.body[r.pos - len + k]].w]
                                  \o SubSeq(r.buf, len + 1, Len(r.buf)),
                          !.buf_len = len,
                          !.buf_pos = len],
          ret |-> 0, aborted |-> FALSE,
          io |-> <<IoSeek(off), IoRead(off, len * LimbBytes)>>]

\* Lines 151-158: move s->pos down by len, seek, read len limbs.
fill_load(r, fl, len, off) ==
    IF off + len * LimbBytes > fl.size
    THEN [s |-> [r EXCEPT !.pos = @ - len], ret |-> 0, aborted |-> TRUE,
          io |-> <<IoSeek(off), IoRead(off, len * LimbBytes)>>]
    ELSE [s |-> [r EXCEPT !.pos = @ - len,
                          !.buf = [k \in 1..len |->
                                      LimbTable[fl.body[r.pos - len + k]].w]
                                  \o SubSeq(r.buf, len + 1, Len(r.buf)),
                          !.buf_len = len,
                          !.buf_pos = len],
          ret |-> 0, aborted |-> FALSE,
          io |-> <<IoSeek(off), IoRead(off, len * LimbBytes)>>]

\* fill_len that reports end of data one limb early.
fill_len_early(r, fl, len) ==
    IF r.pos <= 1
    THEN [s |-> r, ret |-> -1, aborted |-> FALSE, io |-> <<>>]
    ELSE fill_load(r, fl, len, MPT_DISK_HEADER_SIZE + (r.pos - len) * LimbBytes)

\* fill_len that seeks to the limb at s->pos as it was before the load.
fill_len_seek_high(r, fl, len) ==
    IF len = 0
    THEN [s |-> r, ret |-> -1, aborted |-> FALSE, io |-> <<>>]
    ELSE fill_load(r, fl, len, MPT_DISK_HEADER_SIZE + r.pos * LimbBytes)

\* fill_len that, with nothing left to load, puts s->pos back to the top
\* of the fraction before it reports end of data.
fill_len_rewind(r, fl, len) ==
    IF len = 0
    THEN [s |-> [r EXCEPT !.pos = r.h.len - r.h.expn], ret |-> -1,
          aborted |-> FALSE, io |-> <<>>]
    ELSE fill_load(r, fl, len, MPT_DISK_HEADER_SIZE + (r.pos - len) * LimbBytes)

\* Lines 149-152: nothing left to load, or the load and its file offset.
fill_len(r, fl, len) ==
    IF len = 0
    THEN [s |-> r, ret |-> -1, aborted |-> FALSE, io |-> <<>>]
    ELSE fill_load(r, fl, len, MPT_DISK_HEADER_SIZE + (r.pos - len) * LimbBytes)

mpt_reader_fill(r, fl, capacity) == fill_len(r, fl, min_int64(r.pos, capacity))

\* Decompose10 with the two statements of the loop body swapped: a /= 10
\* before cur_limb10[i] = a % 10.
RECURSIVE Decompose10_div_first(_, _)
Decompose10_div_first(a, k) ==
    IF k = 0 THEN <<>>
    ELSE <<DivRem10(DivRem10(a).q).r>>
             \o Decompose10_div_first(DivRem10(a).q, k - 1)

\* The loop of lines 174-177: cur_limb10[i] = a % 10; a /= 10.
RECURSIVE Decompose10(_, _)
Decompose10(a, k) ==
    IF k = 0 THEN <<>>
    ELSE LET d == DivRem10(a) IN <<d.r>> \o Decompose10(d.q, k - 1)

\* get_digit_load with the first digit of every limb skipped.
get_digit_load_skip(r) ==
    [r EXCEPT !.buf_pos = @ - 1,
              !.cur_limb10 = IF r.base = 10
                             THEN Decompose10(r.buf[r.buf_pos], BASE10_EXP)
                             ELSE @,
              !.cur_limb2 = IF r.base = 10 THEN @ ELSE r.buf[r.buf_pos],
              !.cur_digit = (IF r.base = 10 THEN BASE10_EXP - 1
                                            ELSE LimbBits - r.base2_exp)
                            - r.start_digit,
              !.start_digit = 0]

\* Lines 171-179 and 189-192: step back to the next limb of the buffer and
\* make it the current limb.
get_digit_load(r) ==
    [r EXCEPT !.buf_pos = @ - 1,
              !.cur_limb10 = IF r.base = 10
                             THEN Decompose10(r.buf[r.buf_pos], BASE10_EXP)
                             ELSE @,
              !.cur_limb2 = IF r.base = 10 THEN @ ELSE r.buf[r.buf_pos],
              !.cur_digit = (IF r.base = 10 THEN BASE10_EXP ELSE LimbBits)
                            - r.start_digit,
              !.start_digit = 0]

\* Lines 181-182 and 194-195: step to the next digit of the current limb
\* and return it.  ub is what a read outside cur_limb10, or a shift by 64
\* or more, yields (both are undefined in C).
get_digit_emit(r, io, ub) ==
    LET cd == IF r.base = 10 THEN r.cur_digit - 1
                             ELSE r.cur_digit - r.base2_exp
    IN  [s |-> [r EXCEPT !.cur_digit = cd],
         ret |-> IF r.base = 10
                 THEN IF cd \in 0..(BASE10_EXP - 1) THEN r.cur_limb10[cd + 1] ELSE ub
                 ELSE IF cd \in 0..(LimbBits - 1)
                      THEN AndMask(Shr(r.cur_limb2, cd), r.base2_mask)
                      ELSE ub % (r.base2_mask + 1),
         aborted |-> FALSE, io |-> io]

\* Lines 168-170 and 186-188, given what mpt_reader_fill returned.
get_digit_filled(f, ub) ==
    IF f.aborted THEN [s |-> f.s, ret |-> 0, aborted |-> TRUE, io |-> f.io]
    ELSE IF f.ret # 0 THEN [s |-> f.s, ret |-> -1, aborted |-> FALSE, io |-> f.io]
    ELSE get_digit_emit(get_digit_load(f.s), f.io, ub)

\* mpt_reader_get_digit(s) on file fl with a buffer of capacity limbs.
mpt_reader_get_digit(r, fl, capacity, ub) ==
    IF r.cur_digit # 0 THEN get_digit_emit(r, <<>>, ub)
    ELSE IF r.buf_pos # 0 THEN get_digit_emit(get_digit_load(r), <<>>, ub)
    ELSE get_digit_filled(mpt_reader_fill(r, fl, capacity), ub)

\* getc_char that adds 'A' without taking the 10 off.
getc_char_no_offset(g) ==
    [s |-> g.s, digit |-> g.ret, aborted |-> g.aborted, io |-> g.io,
     ret |-> IF g.ret < 0 THEN g.ret
             ELSE IF g.ret < 10 THEN g.ret + 48 ELSE g.ret + 65]

\* Lines 203-209: the character a digit is printed as.
getc_char(g) ==
    [s |-> g.s, digit |-> g.ret, aborted |-> g.aborted, io |-> g.io,
     ret |-> IF g.ret < 0 THEN g.ret
             ELSE IF g.ret < 10 THEN g.ret + 48 ELSE g.ret + 65 - 10]

\* mpt_reader_getc(s): the digit and the character it is printed as.
mpt_reader_getc(r, fl, capacity, ub) ==
    getc_char(mpt_reader_get_digit(r, fl, capacity, ub))

\* What undefined reads and shifts may yield.
UBValues == {0, 1, 255}

(***************************************************************************)
(* The program: main hands filename, base, pos and n to dump_digits.       *)
(***************************************************************************)
Init ==
    /\ file \in Files
    /\ cap \in Caps
    /\ base \in Bases
    /\ pos \in Positions(base)
    /\ n \in Counts
    /\ pc = "start"
    /\ s = NULL
    /\ heap = Heap0
    /\ err = "none"
    /\ i = 0
    /\ out = <<>>
    /\ digits = <<>>
    /\ iolog = <<>>

\* dump_digits, lines 218-222: open at pos - 1, or report and exit(1).
dump_opened(o) ==
    /\ s' = o.s
    /\ err' = o.err
    /\ heap' = o.heap
    /\ iolog' = o.io
    /\ pc' = IF o.s.null THEN "exit" ELSE "loop"

dump_digits_open ==
    /\ pc = "start"
    /\ \E malloc_ok \in BOOLEAN :
         dump_opened(mpt_reader_open(file, base, pos - 1, malloc_ok))
    /\ UNCHANGED <<file, cap, base, pos, n, i, out, digits>>

\* dump_digits, lines 223-230: one turn of the loop.
dump_got(g) ==
    /\ s' = g.s
    /\ iolog' = iolog \o g.io
    /\ IF g.aborted
       THEN /\ pc' = "aborted"
            /\ UNCHANGED <<i, out, digits>>
       ELSE IF g.ret < 0
       THEN /\ pc' = "break"
            /\ digits' = Append(digits, g.digit)
            /\ UNCHANGED <<i, out>>
       ELSE /\ pc' = "loop"
            /\ digits' = Append(digits, g.digit)
            /\ out' = out \o <<g.ret>> \o
                      (IF (i % 10) = 9 /\ i # n - 1 THEN <<32>> ELSE <<>>)
            /\ i' = i + 1

dump_digits_loop ==
    /\ pc = "loop"
    /\ i < n
    /\ \E ub \in UBValues : dump_got(mpt_reader_getc(s, file, cap, ub))
    /\ UNCHANGED <<file, cap, base, pos, n, heap, err>>

\* dump_digits, line 231: the loop has ended, by count or by break.
dump_digits_close ==
    /\ pc = "break" \/ (pc = "loop" /\ i >= n)
    /\ heap' = mpt_reader_close(heap, "crash")
    /\ pc' = "done"
    /\ UNCHANGED <<file, cap, base, pos, n, s, err, i, out, digits, iolog>>

Next == dump_digits_open \/ dump_digits_loop \/ dump_digits_close

Spec == Init /\ [][Next]_vars

\* A caller of the reader that calls mpt_reader_close a second time on the
\* stream it has closed.
close_again ==
    /\ pc = "done"
    /\ \E ub \in {"crash", "stale"} :
         /\ heap' = mpt_reader_close(heap, ub)
         /\ pc' = IF ub = "crash" THEN "crashed" ELSE "closed_twice"
    /\ UNCHANGED <<file, cap, base, pos, n, s, err, i, out, digits, iolog>>

NextApi == dump_digits_open \/ dump_digits_loop \/ dump_digits_close \/ close_again

SpecApi == Init /\ [][NextApi]_vars

(***************************************************************************)
(* What the claims speak of.                                               *)
(***************************************************************************)
\* The 0-based start position dump_digits opens at (line 218).
StartPos == pos - 1

\* L = storedLength - exponent, the number of fractional limbs.
FracLimbs(fl) == fl.len - fl.expn

\* The digits of the stored number from digit position q on, to the end.
DigitsLeft(fl, b, q) == FracLimbs(fl) * DigitsIn(b) - q

\* The loop of dump_digits has ended (by count, by break or by abort).
RunEnded == pc \in {"break", "done", "aborted"} \/ (pc = "loop" /\ i >= n)

\* The reference digit of the stored number at digit position q >= 0, read
\* off the limb's decimal and hexadecimal expansions: digit (q mod D) from
\* the top of limb L - 1 - floor(q / D).
RefLimb(fl, b, q) ==
    LimbTable[fl.body[FracLimbs(fl) - (q \div DigitsIn(b))]]

RefDigitIn(T, b, k) ==
    IF b = 10
    THEN T.dec[k + 2]
    ELSE LET e == LimbBits \div DigitsIn(b)
             m == 4 \div e
         IN  (T.hex[(k \div m) + 1] \div 2^(e * (m - 1 - (k % m)))) % 2^e

RefDigit(fl, b, q) == RefDigitIn(RefLimb(fl, b, q), b, q % DigitsIn(b))

\* C1: after a successful open at p >= 0, the i-th digit nextDigit returns
\* is the reference digit of the stored number at position p + i: digits
\* come out most significant first, starting with digit p itself.
C1_DigitsMatchReference ==
    (StartPos >= 0 /\ Len(digits) > 0 /\ digits[Len(digits)] >= 0)
        => digits[Len(digits)] = RefDigit(file, base, StartPos + Len(digits) - 1)

\* The scenario of the spec: one limb 3141592653589793238, base 10, start
\* position 0, the first five digits.
C1_Witness ==
    /\ file = GoodFile(1, 0)
    /\ base = 10
    /\ StartPos = 0
    /\ digits = <<3, 1, 4, 1, 5>>

(***************************************************************************)
(* Reference runs: open at p and call mpt_reader_get_digit k times, as a   *)
(* function of the file, the base, the position and the buffer capacity.   *)
(* The result lists what the calls return; a call that reaches abort()     *)
(* ends the list with Aborted.                                             *)
(***************************************************************************)
Aborted == 0 - 2

RECURSIVE Pull(_, _, _, _, _)
RECURSIVE PullNext(_, _, _, _, _)
Pull(r, fl, capacity, k, acc) ==
    IF k <= 0 THEN acc
    ELSE PullNext(mpt_reader_get_digit(r, fl, capacity, 0), fl, capacity, k, acc)

PullNext(g, fl, capacity, k, acc) ==
    IF g.aborted THEN Append(acc, Aborted)
    ELSE Pull(g.s, fl, capacity, k - 1, Append(acc, g.ret))

\* What the run of this state has returned so far, in the same form.
Results == IF pc = "aborted" THEN Append(digits, Aborted) ELSE digits

IsDigit(d) == d >= 0

\* C2, one shift j: the run opened j digits further on returns what this
\* run returned from its j-th call on; where that open fails, this run has
\* no digit left from its j-th call on.
ShiftedRunAgrees(o, j) ==
    IF o.s.null
    THEN SelectSeq(SubSeq(digits, j + 1, Len(digits)), IsDigit) = <<>>
    ELSE Pull(o.s, file, cap, Len(digits) - j, <<>>)
             = SubSeq(digits, j + 1, Len(digits))

Shifts(b) == (0..MaxShift) \cup {DigitsIn(b), DigitsIn(b) + 1}

\* C2: position consistency.  For a run opened at p >= 0 that has made k
\* calls, and every shift 0 <= j <= k, opening at p + j and making k - j
\* calls returns the results j..k-1 of this run, on or off a limb boundary.
C2_PositionConsistent ==
    (RunEnded /\ pc # "aborted" /\ ~s.null /\ StartPos >= 0)
        => \A j \in Shifts(base) :
              j <= Len(digits)
                  => ShiftedRunAgrees(
                         mpt_reader_open(file, base, StartPos + j, TRUE), j)

\* A run that starts one digit before a limb boundary and has crossed it.
C2_Witness ==
    /\ RunEnded /\ pc # "aborted" /\ ~s.null
    /\ file = GoodFile(MaxLen, 0)
    /\ StartPos = DigitsIn(base) - 1
    /\ Len(digits) > DigitsIn(base) + 1
    /\ cap = 1

\* C3: refill transparency.  The results of a run opened at p >= 0 are the
\* same for every buffer capacity, the ones that need refills and the one
\* that holds the whole file.
CapsCompared == (1..(MaxLen + 1)) \cup {MPT_MAX_BUF_LEN}

C3_RefillTransparent ==
    (RunEnded /\ ~s.null /\ StartPos >= 0)
        => \A c \in CapsCompared :
              Pull(mpt_reader_open(file, base, StartPos, TRUE).s, file, c,
                   Len(Results), <<>>) = Results

\* A run to the end of the data through a buffer of one limb, refilled for
\* every limb.
C3_Witness ==
    /\ pc = "break"
    /\ cap = 1
    /\ file = GoodFile(MaxLen, 0)
    /\ StartPos = 0
    /\ Len(iolog) = 1 + 2 * MaxLen

\* C4: a run opened at p >= 0 returns L * D - p digits and then end of
\* data: never more digits, not end of data before, and on a file that
\* holds its limbs the run is not cut off by abort().
C4_EndsAfterAllDigits ==
    (~s.null /\ StartPos >= 0)
        => /\ i <= DigitsLeft(file, base, StartPos)
           /\ Len(digits) > 0 /\ digits[Len(digits)] < 0
                  => Len(digits) - 1 = DigitsLeft(file, base, StartPos)
           /\ file.size >= MPT_DISK_HEADER_SIZE + LimbBytes * file.len
                  => pc # "aborted"

\* More digits asked for than remain: the run ends with end of data.
C4_Witness ==
    /\ pc = "break"
    /\ StartPos = DigitsIn(base) + 1
    /\ n > DigitsLeft(file, base, StartPos)
    /\ i = DigitsLeft(file, base, StartPos)
    /\ i > 0

\* C5: when storedLength - exponent - floor(startPosition / digitsPerLimb)
\* is <= 0, open returns no stream and has neither sought into nor read
\* the body; where the header is read and accepted the failure is the
\* position's.
NoBodyIo == \A k \in 1..Len(iolog) : iolog[k] = IoHeader

C5_OutOfRangeFailsUnread ==
    (pc # "start" /\ base_supported(base)
        /\ FracLimbs(file) - (StartPos \div DigitsIn(base)) <= 0)
        => /\ s.null
           /\ pc = "exit"
           /\ NoBodyIo
           /\ (err # "NoMemory" /\ file.exists /\ header_valid(file))
                  => err = "PositionOutOfRange"

\* The first position past the last digit of a file that has digits.
C5_Witness ==
    /\ pc = "exit"
    /\ err = "PositionOutOfRange"
    /\ FracLimbs(file) = MaxLen
    /\ StartPos = MaxLen * DigitsIn(base)

\* C6: a short read in a refill comes back to the caller of nextDigit as an
\* error of its own: whatever nextDigit meets (here on a stream opened at a
\* position p >= 0), control returns to the caller, who can go on to close
\* the stream.
C6_ShortReadReturnsToCaller == StartPos >= 0 => pc # "aborted"

\* C7: close called twice on an opened stream releases the file handle,
\* the buffer and the record once each, touches nothing released and does
\* not crash.
C7_CloseIdempotent ==
    ~s.null =>
    /\ heap.nfclose <= 1
    /\ heap.nfreebuf <= 1
    /\ heap.nfrees <= 1
    /\ ~heap.fault
    /\ pc # "crashed"

\* C8: on every way out of dump_digits (a failed open, the end of data, the
\* count reached, a failed read), for every position p >= 0 asked for,
\* nothing open has acquired is left unreleased, and nothing is released
\* twice.
C8_ReleasedOnEveryExit ==
    (StartPos >= 0 /\ pc \in {"exit", "done", "aborted"})
        => /\ heap.f # "open"
           /\ heap.buf # "live"
           /\ heap.s # "live"
           /\ heap.nfclose <= 1 /\ heap.nfreebuf <= 1 /\ heap.nfrees <= 1

\* C9 as claimed: open rejects the base exactly when it is outside
\* {10, 2, 4, 8, 16} or is a power of two whose bits per digit do not
\* divide 64, so base 4 is accepted.
BitsPerDigit(b) == CHOOSE e \in 1..6 : 2^e = b

C9_RejectsOutsideFiveBases ==
    pc # "start"
        => (err = "UnsupportedBase"
               <=> \/ base \notin {10, 2, 4, 8, 16}
                   \/ base # 10 /\ LimbBits % BitsPerDigit(base) # 0)

\* C9 as amended: open rejects the base exactly when it is not 10, 2 or
\* 16; for these three it goes on to read the header where the file opens,
\* and with a header it accepts only the position can still fail.
C9_RejectsOutsideThreeBases ==
    pc # "start"
        => /\ err = "UnsupportedBase" <=> base \notin {10, 2, 16}
           /\ (base \in {10, 2, 16} /\ err # "NoMemory" /\ file.exists)
                  => /\ Len(iolog) > 0 /\ iolog[1] = IoHeader
                     /\ header_valid(file)
                            => err \in {"none", "PositionOutOfRange"}

\* Base 4 asked for, and refused.
C9_Witness ==
    /\ pc = "exit"
    /\ base = 4
    /\ err = "UnsupportedBase"
    /\ iolog = <<>>

\* C10: with a supported base and the file opened, open fails with a format
\* error exactly when the file is shorter than the header, the magic is
\* wrong, the kind is not 2 or the exponent is negative, and any such file
\* yields no stream; with an in-range start position p >= 0 nothing else in
\* the header makes it fail.
HeaderDefect(fl) ==
    \/ fl.size < HeaderStructSize
    \/ fl.magic # mpt_magic
    \/ fl.type # 2
    \/ fl.expn < 0

C10_HeaderValidation ==
    pc # "start"
        => /\ HeaderDefect(file) => s.null
           /\ (base_supported(base) /\ err # "NoMemory" /\ file.exists)
                  => /\ err = "Format" <=> HeaderDefect(file)
                     /\ (~HeaderDefect(file) /\ StartPos >= 0
                           /\ FracLimbs(file) - (StartPos \div DigitsIn(base)) > 0)
                            => ~s.null /\ err = "none"

\* A negative exponent refused after the header was read.
C10_Witness ==
    /\ pc = "exit"
    /\ file.expn < 0
    /\ err = "Format"
    /\ iolog = <<IoHeader>>

(***************************************************************************)
(* Digits and characters.                                                  *)
(***************************************************************************)
\* The characters '0'..'9' and 'A'..'F' by digit value, and the space.
DigitChars == <<48, 49, 50, 51, 52, 53, 54, 55, 56, 57, 65, 66, 67, 68, 69, 70>>

Space == 32

\* What dump_digits has printed, without the spaces between groups.
OutChars == SelectSeq(out, LAMBDA c : c # Space)

\* The digits returned so far, without a closing end-of-data.
DigitsOut == SelectSeq(digits, LAMBDA d : d >= 0)

\* C11: every value nextDigit returns is end-of-data (-1) or a digit in
\* 0..base-1, whatever the limb and the offset into it; each digit is
\* printed as the character '0'..'9' or 'A'..'F' of its value, so bases 10
\* and 2 print only '0'..'9' and letters appear only in base 16; an
\* end-of-data result reaches the caller as it is, prints nothing and ends
\* the loop.  (Start positions p >= 0; reads outside the limb are C17's.)
C11_DigitsInRange ==
    (StartPos >= 0 /\ Len(digits) > 0) =>
        LET d == digits[Len(digits)]
        IN  /\ d = -1 \/ d \in 0..(base - 1)
            /\ Len(OutChars) = Len(DigitsOut)
            /\ d >= 0 => /\ OutChars[Len(OutChars)] = DigitChars[d + 1]
                         /\ base \in {2, 10} => OutChars[Len(OutChars)] \in 48..57
                         /\ OutChars[Len(OutChars)] \in 65..70 => base = 16
            /\ d < 0 => pc \in {"break", "done"}
            /\ pc = "break" => d < 0

\* Base 16, the limb 0x0123456789ABCDEF from its top: the digit 15 has just
\* been printed as 'F'.
C11_Witness ==
    /\ base = 16
    /\ StartPos = 0
    /\ pc = "loop"
    /\ Len(digits) = 16
    /\ digits[16] = 15
    /\ out[Len(out)] = 70
    /\ \E k \in 1..Len(digits) : digits[k] = 9 /\ OutChars[k] = 57

(***************************************************************************)
(* The stream as mpt_reader_open leaves it.                                *)
(***************************************************************************)
\* The stream has been opened and no digit has been asked for yet.
JustOpened == pc = "loop" /\ digits = <<>>

\* The start position in the unit open counts in for a power-of-two base.
ScaledStart == StartPos * BitsPerDigit(base)

\* Quotient and remainder that truncate towards zero, by the sign of a.
TruncQuot(a, d) == IF a >= 0 THEN a \div d ELSE 0 - ((0 - a) \div d)

TruncRem(a, d) == IF a >= 0 THEN a % d ELSE 0 - ((0 - a) % d)

\* C12 as it is stated: for a power-of-two base open divides the scaled
\* start position by digitsPerLimb = 64 / e to get limbOffset (quotient)
\* and startDigitOffset (remainder); base 10 divides the unscaled position
\* by 19; the opened stream has length = 0, cursor = 0 and filePosition =
\* limbOffset.
C12_OpenDividesByDigitsPerLimb ==
    (JustOpened /\ StartPos >= 0) =>
        /\ s.buf_len = 0
        /\ s.buf_pos = 0
        /\ base = 10 =>
             /\ s.pos = FracLimbs(file) - (StartPos \div BASE10_EXP)
             /\ s.start_digit = StartPos % BASE10_EXP
        /\ base # 10 =>
             /\ s.pos = FracLimbs(file)
                        - (ScaledStart \div (LimbBits \div BitsPerDigit(base)))
             /\ s.start_digit = ScaledStart % (LimbBits \div BitsPerDigit(base))

\* C12, amended: for a power-of-two base open divides the scaled start
\* position (a bit position) by the 64 bits of a limb, not by the number
\* of digits in a limb: limbOffset = storedLength - exponent - scaled / 64
\* and startDigitOffset = scaled rem 64, a bit offset; base 10 divides the
\* unscaled position by 19.  Quotient and remainder truncate towards zero.
\* The opened stream has length = 0, cursor = 0, filePosition = limbOffset
\* and no limb decoded.
C12_OpenDividesByBitsPerLimb ==
    JustOpened =>
        /\ s.buf_len = 0
        /\ s.buf_pos = 0
        /\ s.cur_digit = 0
        /\ s.pos > 0
        /\ base = 10 =>
             /\ s.pos = FracLimbs(file) - TruncQuot(StartPos, BASE10_EXP)
             /\ s.start_digit = TruncRem(StartPos, BASE10_EXP)
        /\ base # 10 =>
             /\ s.base2_exp = BitsPerDigit(base)
             /\ s.pos = FracLimbs(file) - TruncQuot(ScaledStart, LimbBits)
             /\ s.start_digit = TruncRem(ScaledStart, LimbBits)

\* Base 16 opened at digit 17 of a three-limb fraction: bit 68, that is
\* bit 4 of the second limb from the top (64 / e = 16 would give digit 4
\* of the fifth limb, which does not exist).
C12_Witness ==
    /\ JustOpened
    /\ file = GoodFile(MaxLen, 0)
    /\ base = 16
    /\ StartPos = 17
    /\ s.pos = MaxLen - 1
    /\ s.start_digit = 4

(***************************************************************************)
(* The buffer and its refills.                                             *)
(***************************************************************************)
\* The next mpt_reader_get_digit call of this state starts with a refill.
RefillDue == ~s.null /\ pc = "loop" /\ s.cur_digit = 0 /\ s.buf_pos = 0

\* What a refill of stream r that returned f has done: a successful one
\* has loaded loadCount = min(filePosition, capacity) >= 1 limbs and set
\* length and cursor to it and filePosition down by it; one that returns
\* end-of-data has changed nothing.  (A short read is neither: C6.)
RefillEffect(r, f) ==
    IF f.aborted THEN TRUE
    ELSE IF f.ret = 0
    THEN LET loadCount == IF r.pos < cap THEN r.pos ELSE cap
         IN  /\ loadCount >= 1
             /\ f.s.buf_len = loadCount
             /\ f.s.buf_pos = loadCount
             /\ f.s.pos = r.pos - loadCount
    ELSE /\ f.ret = -1
         /\ r.pos = 0
         /\ f.s = r

\* C13: in every state after open, 0 <= cursor <= length <= capacity and
\* filePosition >= 0; a refill that succeeds sets length = cursor =
\* min(filePosition before, capacity) >= 1 and takes that off filePosition,
\* and a refill that returns end-of-data changes nothing.
C13_BufferInvariant ==
    ~s.null =>
        /\ 0 <= s.buf_pos
        /\ s.buf_pos <= s.buf_len
        /\ s.buf_len <= cap
        /\ s.pos >= 0
        /\ RefillDue => RefillEffect(s, mpt_reader_fill(s, file, cap))

\* Three limbs, capacity 2: the first load took two limbs, both are used
\* up, and the refill now due loads the one limb that is left.
C13_Witness ==
    /\ RefillDue
    /\ file = GoodFile(MaxLen, 0)
    /\ cap = MaxCap
    /\ StartPos = 0
    /\ s.buf_len = MaxCap
    /\ s.pos = MaxLen - MaxCap
    /\ mpt_reader_fill(s, file, cap).s.buf_len = MaxLen - MaxCap

(***************************************************************************)
(* The loads of a run, read off the log of file operations: the header     *)
(* read of open, then a seek and a read for every refill.                  *)
(***************************************************************************)
NLoads == (Len(iolog) - 1) \div 2

SeekAt(k) == iolog[2 * k]

LoadAt(k) == iolog[2 * k + 1]

\* limbOffset, the filePosition open starts from (C12).
OpenLimbOffset ==
    FracLimbs(file) - (IF base = 10 THEN TruncQuot(StartPos, BASE10_EXP)
                                    ELSE TruncQuot(ScaledStart, LimbBits))

\* The byte offset of limb index k of the body.
LimbAt(k) == MPT_DISK_HEADER_SIZE + LimbBytes * k

\* The index of the limb being decoded: the limbs above it are consumed.
CurLimb == s.pos + s.buf_pos

\* The stream's current limb is limb T of the table.
IsCurLimb(T) ==
    IF base = 10
    THEN \A k \in 1..BASE10_EXP : s.cur_limb10[k] = T.dec[BASE10_EXP + 2 - k]
    ELSE s.cur_limb2 = T.w

\* C14, in a state: every refill seeks to and reads from 4096 + 8 *
\* filePosition_after, a whole number of limbs between 1 and the capacity;
\* the high end of the first load is limbOffset, the high end of every
\* later load is the low end of the one before (so the seek offsets go
\* strictly down) and the low end of the last is filePosition; the buffer
\* holds the limbs [filePosition, filePosition + length) of the body and
\* the limb being decoded is limb filePosition + cursor; at end-of-data
\* that index is 0: the loads have covered [0, limbOffset).
C14_Loads ==
    ~s.null =>
        /\ Len(iolog) = 2 * NLoads + 1
        /\ iolog[1] = IoHeader
        /\ \A k \in 1..NLoads :
             /\ SeekAt(k) = IoSeek(LoadAt(k).off)
             /\ LoadAt(k).op = "read"
             /\ LoadAt(k).nbytes % LimbBytes = 0
             /\ LoadAt(k).nbytes >= LimbBytes
             /\ LoadAt(k).nbytes <= LimbBytes * cap
             /\ LoadAt(k).off + LoadAt(k).nbytes
                  = IF k = 1 THEN LimbAt(OpenLimbOffset) ELSE LoadAt(k - 1).off
        /\ LimbAt(s.pos) = IF NLoads = 0 THEN LimbAt(OpenLimbOffset)
                                         ELSE LoadAt(NLoads).off
        /\ pc # "aborted" =>
             /\ s.buf_len = IF NLoads = 0 THEN 0
                            ELSE LoadAt(NLoads).nbytes \div LimbBytes
             /\ \A j \in 1..s.buf_len :
                  s.buf[j] = LimbTable[file.body[s.pos + j]].w
             /\ CurLimb < OpenLimbOffset =>
                  IsCurLimb(LimbTable[file.body[CurLimb + 1]])
             /\ pc = "break" => CurLimb = 0 /\ s.pos = 0

\* C14, in a step: a nextDigit call that finds digits left in the limb
\* stays on it; one that finds none goes to the limb one index below, by
\* the cursor within a load and by a refill at its low end, or returns
\* end-of-data at index 0.
C14_Consume ==
    (~s.null /\ pc' # "aborted") =>
        \/ s.cur_digit # 0 /\ CurLimb' = CurLimb
        \/ s.cur_digit = 0 /\ pc' = "loop" /\ CurLimb' = CurLimb - 1
        \/ s.cur_digit = 0 /\ pc' = "break" /\ CurLimb = 0 /\ s' = s
        \/ pc' = "done" /\ s' = s

\* C14: back-to-front paging without gaps or overlaps: the loads are
\* adjacent ranges going down from limbOffset to 0, read from 4096 + 8 *
\* low end, and the limbs are consumed one index at a time in the order
\* limbOffset - 1, ..., 0, each once.
C14_BackToFront == [](C14_Loads) /\ [][C14_Consume]_vars

\* Three limbs, capacity 2, read to the end: limbs 1 and 2 loaded from
\* byte 4104, then limb 0 from byte 4096.
C14_Witness ==
    /\ pc = "break"
    /\ file = GoodFile(MaxLen, 0)
    /\ cap = MaxCap
    /\ StartPos = 0
    /\ NLoads = 2
    /\ LoadAt(1) = IoRead(LimbAt(MaxLen - MaxCap), LimbBytes * MaxCap)
    /\ LoadAt(2) = IoRead(LimbAt(0), LimbBytes * (MaxLen - MaxCap))
    /\ CurLimb = 0

(***************************************************************************)
(* When the file is read.                                                  *)
(***************************************************************************)
\* The limbs a run has started to decode.
LimbsConsumed == OpenLimbOffset - CurLimb

CeilDiv(a, d) == (a + d - 1) \div d

\* C15, in a state: open has read the header and nothing of the body, and
\* the refills so far number ceil(limbsConsumed / capacity).
C15_RefillCount ==
    (~s.null /\ pc # "aborted") =>
        /\ JustOpened => iolog = <<IoHeader>>
        /\ NLoads = CeilDiv(LimbsConsumed, cap)

\* C15, in a step: a nextDigit call made with digits left in the limb or
\* limbs left in the buffer does no file I/O; a call that does starts
\* with remainingDigitsInLimb = 0 and cursor = 0 and does one seek and one
\* read.
C15_RefillOnlyWhenEmpty ==
    ~s.null =>
        /\ (s.cur_digit # 0 \/ s.buf_pos # 0) => iolog' = iolog
        /\ iolog' # iolog =>
             /\ s.cur_digit = 0 /\ s.buf_pos = 0
             /\ Len(iolog') = Len(iolog) + 2
             /\ iolog'[Len(iolog')].op = "read"
             /\ iolog'[Len(iolog) + 1].op = "seek"

\* C15: reads are lazy: none of limb data by open, a refill only inside a
\* nextDigit call made with no digit left in the limb and no limb left in
\* the buffer, hence ceil(limbsConsumed / capacity) refills after any
\* number of digits pulled.
C15_LazyReads == [](C15_RefillCount) /\ [][C15_RefillOnlyWhenEmpty]_vars

\* Capacity 2, three limbs consumed, the third still being decoded: two
\* refills, and the call that led here did no I/O.
C15_Witness ==
    /\ pc = "loop"
    /\ file = GoodFile(MaxLen, 0)
    /\ cap = MaxCap
    /\ StartPos = 0
    /\ LimbsConsumed = 3
    /\ NLoads = 2
    /\ s.cur_digit # 0
    /\ s.cur_digit < BASE10_EXP - 1

(***************************************************************************)
(* A caller of the reader that goes on calling mpt_reader_getc after it    *)
(* has returned end of data (dump_digits itself stops at the first -1).    *)
(***************************************************************************)
\* How many calls the caller makes after the first end of data.
MaxAgain == 2

\* The calls made since the last digit was printed.
CallsSinceDigit == Len(digits) - Len(OutChars)

again_got(g) ==
    /\ s' = g.s
    /\ iolog' = iolog \o g.io
    /\ digits' = Append(digits, g.digit)
    /\ pc' = IF g.aborted THEN "aborted" ELSE "break"

getc_again ==
    /\ pc = "break"
    /\ CallsSinceDigit <= MaxAgain
    /\ \E ub \in UBValues : again_got(mpt_reader_getc(s, file, cap, ub))
    /\ UNCHANGED <<file, cap, base, pos, n, heap, err, i, out>>

NextAgain == dump_digits_open \/ dump_digits_loop \/ dump_digits_close \/ getc_again

SpecAgain == Init /\ [][NextAgain]_vars

\* C16, in a state: end-of-data has been returned with filePosition = 0,
\* cursor = 0 and no digit left in the limb, and everything returned since
\* the first end-of-data is end-of-data.
C16_AtEnd ==
    pc = "break" =>
        /\ s.pos = 0 /\ s.buf_pos = 0 /\ s.cur_digit = 0
        /\ CallsSinceDigit >= 1
        /\ \A k \in (Len(OutChars) + 1)..Len(digits) : digits[k] = -1

\* C16, in a step: a nextDigit call made after end-of-data returns
\* end-of-data, does no seek and no read, and leaves the whole stream
\* (filePosition, cursor, length, the digit cursor, startDigitOffset, the
\* buffer) as it was.
C16_Again ==
    (pc = "break" /\ pc' # "done") =>
        /\ pc' = "break"
        /\ digits' = Append(digits, -1)
        /\ iolog' = iolog
        /\ s' = s

\* C16: end-of-data is terminal and free of side effects.
C16_EndOfDataTerminal == [](C16_AtEnd) /\ [][C16_Again]_vars

\* One limb in base 10: its 19 digits, then end-of-data on each of the
\* 1 + MaxAgain calls that follow, with the one load of the run.
C16_Witness ==
    /\ pc = "break"
    /\ file = GoodFile(1, 0)
    /\ base = 10
    /\ StartPos = 0
    /\ Len(OutChars) = BASE10_EXP
    /\ CallsSinceDigit = 1 + MaxAgain
    /\ digits[Len(digits)] = -1
    /\ NLoads = 1

(***************************************************************************)
(* The digit cursor.                                                       *)
(***************************************************************************)
\* After a call that returned a digit, s.cur_digit is the index into
\* cur_limb10 (base 10) or the shift amount (power of two) the call used;
\* before the call it was that plus one digit, the digits remaining.
\*
\* C17: for every start position open accepts, negative ones included:
\* 0 <= startDigitOffset < the size of a limb at open, and 0 once a limb
\* has been loaded; in base 10 the digits remaining are in 0..19 and every
\* index used is in 0..18; in a power-of-two base the bits remaining are
\* in 0..64 and a multiple of the bits per digit, and every shift is in
\* 0..63.
C17_DigitCursorInBounds ==
    (~s.null /\ pc # "aborted") =>
        /\ 0 <= s.start_digit
        /\ s.start_digit < (IF base = 10 THEN BASE10_EXP ELSE LimbBits)
        /\ LimbsConsumed >= 1 => s.start_digit = 0
        /\ base = 10 => s.cur_digit \in 0..(BASE10_EXP - 1)
        /\ base # 10 => /\ s.cur_digit \in 0..(LimbBits - 1)
                        /\ s.cur_digit % BitsPerDigit(base) = 0

(***************************************************************************)
(* The part of the file a run reads.                                       *)
(***************************************************************************)
\* The body of the file really holds the storedLength limbs of its header.
BodyComplete(fl) == fl.size >= LimbAt(fl.len)

\* C18: for every start position open accepts, negative ones included:
\* filePosition <= storedLength - exponent <= storedLength after open, so
\* every refill reads limbs inside [0, storedLength - exponent) only, no
\* integer-part limb and nothing past the end of the body, and a file
\* whose body is complete never gives a short read.
C18_ReadsInsideFraction ==
    ~s.null =>
        /\ s.pos <= FracLimbs(file)
        /\ FracLimbs(file) <= file.len
        /\ \A k \in 1..NLoads :
             /\ LoadAt(k).off >= LimbAt(0)
             /\ LoadAt(k).off + LoadAt(k).nbytes <= LimbAt(FracLimbs(file))
        /\ BodyComplete(file) => pc # "aborted"

(***************************************************************************)
(* The decimal digits of a limb.                                           *)
(***************************************************************************)
\* The values a takes in the loop of lines 174-177: after 1, ..., k turns.
RECURSIVE Quotients10(_, _)
Quotients10(a, k) ==
    IF k = 0 THEN <<>>
    ELSE LET d == DivRem10(a) IN <<d.q>> \o Quotients10(d.q, k - 1)

\* What is left in a after k >= 1 turns of the loop.
Rest10(a, k) == Quotients10(a, k)[k]

\* 10 * a + d in 64 bits, word by word with carries.
MulAdd10(a, d) ==
    LET t1 == 10 * a[1] + d
        t2 == 10 * a[2] + (t1 \div WordBase)
        t3 == 10 * a[3] + (t2 \div WordBase)
        t4 == 10 * a[4] + (t3 \div WordBase)
    IN  <<t1 % WordBase, t2 % WordBase, t3 % WordBase, t4 % WordBase>>

\* The sum of ds[j] * 10^(j - k) over j in k..Len(ds), as a 64-bit value.
RECURSIVE Value10(_, _)
Value10(ds, k) ==
    IF k > Len(ds) THEN <<0, 0, 0, 0>>
    ELSE MulAdd10(Value10(ds, k + 1), ds[k])

\* The limb the stream is decoding, as an entry of the table.
CurTableLimb == LimbTable[file.body[CurLimb + 1]]

\* A limb has been decoded in base 10.
Decoded10 == ~s.null /\ base = 10 /\ pc # "aborted" /\ LimbsConsumed >= 1

\* C19 as it is stated: after the 19 divide/modulo steps nothing is left
\* of the limb, and the sum of decodedDigits[i] * 10^i over i in 0..18 is
\* the limb, for every 64-bit limb.  (Taken at start positions p >= 0.)
C19_NineteenDigitsLossless ==
    (Decoded10 /\ StartPos >= 0) =>
        /\ Rest10(CurTableLimb.w, BASE10_EXP) = <<0, 0, 0, 0>>
        /\ Value10(s.cur_limb10, 1) = CurTableLimb.w

\* The decomposition of limb T into digits ds: each is a decimal digit and
\* ds[i] is the digit of 10^(i-1) in T's decimal expansion; what is left
\* after the 19 steps is q, 0 or 1, the 20th digit; the 19 digits and q
\* together make up the limb; q is 0, and the 19 digits alone make up the
\* limb, exactly when the limb is below 10^19.
Decomposition(T, ds, q) ==
    /\ \A k \in 1..BASE10_EXP : ds[k] \in 0..9 /\ ds[k] = T.dec[BASE10_EXP + 2 - k]
    /\ q \in {<<0, 0, 0, 0>>, <<1, 0, 0, 0>>}
    /\ q[1] = T.dec[1]
    /\ Value10(ds \o <<q[1]>>, 1) = T.w
    /\ Value10(ds, 1) = T.w <=> T.dec[1] = 0

\* C19, amended: the 19 divide/modulo steps give the 19 low decimal digits
\* of the limb and leave the quotient limb / 10^19, which is 0 for limbs
\* below 10^19 and 1 for limbs from 10^19 to 2^64 - 1; the decomposition
\* is lossless exactly for limbs below 10^19, and for the others the digits
\* stand for limb - 10^19.
C19_LosslessBelowTenToThe19 ==
    Decoded10 =>
        Decomposition(CurTableLimb, s.cur_limb10,
                      Rest10(CurTableLimb.w, BASE10_EXP))

\* The limb 2^64 - 1 = 18446744073709551615 decoded: the digits are those
\* of 8446744073709551615 and 1 is left over; the first digit returned
\* from the limb is 8.
C19_Witness ==
    /\ Decoded10
    /\ pc = "loop"
    /\ StartPos = BASE10_EXP
    /\ CurTableLimb.w = <<65535, 65535, 65535, 65535>>
    /\ Rest10(CurTableLimb.w, BASE10_EXP) = <<1, 0, 0, 0>>
    /\ s.cur_limb10[BASE10_EXP] = 8
    /\ s.cur_limb10[1] = 5
    /\ digits = <<8>>

====
